---- MODULE Spec2Model ----
(***************************************************************************)
(* Request admission pipeline of communex's ModuleServer:                  *)
(*   IpLimiterMiddleware.dispatch  (src/communex/module/_ip_limiter.py)    *)
(*   input_middleware, register_endpoints, ModuleServer.__init__           *)
(*                                 (src/communex/module/server.py)         *)
(* Strings are sequences of one-character strings, bytes are sequences of  *)
(* integers 0..255.  Time is counted in ticks, tokens in sub-token units.  *)
(***************************************************************************)
EXTENDS Integers, Sequences, FiniteSets, TLC

VARIABLES app, limiter, now, req, stats, shadow

vars == <<app, limiter, now, req, stats, shadow>>

-----------------------------------------------------------------------------
(* Bounds of the model *)

\* sub-token units per token; one tick of the clock is 1/(15*Scale) second
Scale == 2
\* the clock stops advancing at MaxTime ticks
MaxTime == 3
\* bucket_size of the limiter passed as ip_limiter in Spec
CustomBucketSize == 1
\* requests served in the throttle-boundary scenario (beyond the bucket size)
ExtraCalls == 4

-----------------------------------------------------------------------------
(* Text and bytes *)

Digits == <<"0", "1", "2", "3", "4", "5", "6", "7", "8", "9">>
LowerHex == Digits \o <<"a", "b", "c", "d", "e", "f">>
UpperHex == Digits \o <<"A", "B", "C", "D", "E", "F">>

Range(s) == {s[i] : i \in DOMAIN s}

Min(a, b) == IF a <= b THEN a ELSE b

\* value of one hexadecimal digit, either case
HexVal(c) == (CHOOSE i \in 1..16 : LowerHex[i] = c \/ UpperHex[i] = c) - 1

\* value of one decimal digit
DigitVal(c) == (CHOOSE i \in 1..10 : Digits[i] = c) - 1

\* re.compile(r'^[0-9a-fA-F]+$').match(string)
is_hex_string(string) ==
    /\ Len(string) >= 1
    /\ \A i \in 1..Len(string) : string[i] \in Range(LowerHex) \cup Range(UpperHex)

\* bytes.fromhex raises ValueError on a non-hex character or an odd digit count
fromhex_raises(s) ==
    \/ \E i \in 1..Len(s) : s[i] \notin Range(LowerHex) \cup Range(UpperHex)
    \/ Len(s) % 2 = 1

\* bytes.fromhex on a string it accepts: two digits per byte
fromhex(s) == [i \in 1..(Len(s) \div 2) |-> 16 * HexVal(s[2 * i - 1]) + HexVal(s[2 * i])]

has_0x_prefix(hex_str) == Len(hex_str) >= 2 /\ SubSeq(hex_str, 1, 2) = <<"0", "x">>

strip_0x(hex_str) == SubSeq(hex_str, 3, Len(hex_str))

parse_hex_raises(hex_str) ==
    IF has_0x_prefix(hex_str) THEN fromhex_raises(strip_0x(hex_str))
    ELSE fromhex_raises(hex_str)

parse_hex(hex_str) ==
    IF has_0x_prefix(hex_str) THEN fromhex(strip_0x(hex_str))
    ELSE fromhex(hex_str)

\* int(str) raises ValueError unless the text is a decimal numeral
int_raises(s) == Len(s) = 0 \/ \E i \in 1..Len(s) : s[i] \notin Range(Digits)

RECURSIVE int_value(_)
int_value(s) ==
    IF Len(s) = 0 THEN 0
    ELSE 10 * int_value(SubSeq(s, 1, Len(s) - 1)) + DigitVal(s[Len(s)])

\* str(n) of a non-negative integer
RECURSIVE str_int(_)
str_int(n) == IF n < 10 THEN <<Digits[n + 1]>> ELSE str_int(n \div 10) \o <<Digits[(n % 10) + 1]>>

\* the hexadecimal text of bytes in the given digits: what a client puts in
\* x-signature and x-key
RECURSIVE hex_text(_, _)
hex_text(bytes, digits) ==
    IF Len(bytes) = 0 THEN <<>>
    ELSE <<digits[(bytes[1] \div 16) + 1], digits[(bytes[1] % 16) + 1]>>
            \o hex_text(Tail(bytes), digits)

\* bytes.hex()
to_hex(bytes) == hex_text(bytes, LowerHex)

-----------------------------------------------------------------------------
(* Responses *)

NoHeaders == [h \in {} |-> <<>>]

EmptyBody == [shape |-> "empty", code |-> 0, message |-> <<>>]

\* starlette Response(status_code=..., headers=...)
Response(status_code, headers) ==
    [status |-> status_code, headers |-> headers, body |-> EmptyBody]

\* the message as the whole content, without the error object around it
_return_error_plain(code, message) ==
    [status |-> code, headers |-> NoHeaders,
     body |-> [shape |-> "string", code |-> 0, message |-> message]]

\* JSONResponse(status_code=code, content={"error": {"code": code, "message": message}})
_return_error(code, message) ==
    [status |-> code, headers |-> NoHeaders,
     body |-> [shape |-> "error", code |-> code, message |-> message]]

\* JSONResponse(status_code=401, content="Signatures doesn't match")
SignatureMismatchResponse ==
    [status |-> 401, headers |-> NoHeaders,
     body |-> [shape |-> "string", code |-> 0, message |-> <<"Signatures doesn't match">>]]

\* an exception leaving the middleware stack is answered by the server with 500
ServerErrorResponse ==
    [status |-> 500, headers |-> NoHeaders,
     body |-> [shape |-> "fault", code |-> 0, message |-> <<"Internal Server Error">>]]

\* the router's answer to a body that fails the endpoint's params model
ValidationErrorResponse ==
    [status |-> 422, headers |-> NoHeaders,
     body |-> [shape |-> "validation", code |-> 0, message |-> <<>>]]

\* the router's answer carrying the handler's return value
HandlerResponse(fn) ==
    [status |-> 200, headers |-> NoHeaders,
     body |-> [shape |-> "payload", code |-> 0, message |-> <<fn>>]]

-----------------------------------------------------------------------------
(* The limiter capability {allow, remaining}: a token bucket per key *)

DefaultBucketSize == 200
DefaultRefillRate == 15

TicksPerSecond == DefaultRefillRate * Scale

NoBuckets == [k \in {} |-> [tokens |-> 0, last_refill |-> 0]]

TokenBucketLimiter(bucket_size, refill_rate) ==
    [bucket_size |-> bucket_size, refill_rate |-> refill_rate, buckets |-> NoBuckets]

\* a bucket is created full on the first lookup of an unseen key
bucket_of(lim, key, t) ==
    IF key \in DOMAIN lim.buckets THEN lim.buckets[key]
    ELSE [tokens |-> lim.bucket_size * Scale, last_refill |-> t]

\* a refill that adds the elapsed tokens without looking at the capacity
refill_uncapped(lim, b, t) ==
    LET elapsed == t - b.last_refill
        gained == (elapsed * lim.refill_rate * Scale) \div TicksPerSecond
    IN  [tokens |-> b.tokens + gained, last_refill |-> t]

\* tokens = min(capacity, tokens + elapsed * refill_rate); last_refill = now
refill(lim, b, t) ==
    LET elapsed == t - b.last_refill
        gained == (elapsed * lim.refill_rate * Scale) \div TicksPerSecond
    IN  [tokens |-> Min(lim.bucket_size * Scale, b.tokens + gained), last_refill |-> t]

\* allow(key): refill, then debit one token when at least one is there
allow(lim, key, t) ==
    LET b == refill(lim, bucket_of(lim, key, t), t)
        ok == b.tokens >= Scale
        b2 == IF ok THEN [b EXCEPT !.tokens = b.tokens - Scale] ELSE b
    IN  [result |-> ok,
         limiter |-> [lim EXCEPT !.buckets = (key :> b2) @@ lim.buckets]]

\* the whole tokens that are missing from the bucket, not those that are in it
remaining_spent(lim, key, t) ==
    lim.bucket_size - (refill(lim, bucket_of(lim, key, t), t).tokens \div Scale)

\* remaining(key): floor of the refilled token count, nothing is changed
remaining(lim, key, t) == refill(lim, bucket_of(lim, key, t), t).tokens \div Scale

-----------------------------------------------------------------------------
(* IpLimiterMiddleware *)

\* the default limiter with its two arguments exchanged
IpLimiterMiddleware_init_swapped(limiter_arg) ==
    IF limiter_arg = <<>> THEN TokenBucketLimiter(DefaultRefillRate, DefaultBucketSize)
    ELSE limiter_arg[1]

\* self._limiter = limiter or TokenBucketLimiter(bucket_size=200, refill_rate=15)
IpLimiterMiddleware_init(limiter_arg) ==
    IF limiter_arg = <<>> THEN TokenBucketLimiter(DefaultBucketSize, DefaultRefillRate)
    ELSE limiter_arg[1]

\* the first assertion alone: a client is there, its host may be empty
client_asserts_only_client(client) == client # <<>>

\* request.client is None (<<>>) or an address <<host>>; both asserts of dispatch
client_asserts_hold(client) == client # <<>> /\ client[1] # ""

\* every client is limited under one key
client_ip_shared(client) == "*"

\* ip = request.client.host
client_ip(client) == client[1]

\* Response(status_code=400, headers={"X-RateLimit-Remaining": str(remaining(ip))})
throttle_response(lim, ip, t) ==
    Response(400, "X-RateLimit-Remaining" :> str_int(remaining(lim, ip, t)))

\* the denial is not returned
after_allow_forwards(is_allowed) == "call_next"

\* what dispatch does once allow has answered
after_allow(is_allowed) == IF ~is_allowed THEN "response" ELSE "call_next"

\* IpLimiterMiddleware.dispatch up to its return or its call_next
IpLimiterMiddleware_dispatch(lim, client, t) ==
    IF ~client_asserts_hold(client)
    THEN [outcome |-> "raise", limiter |-> lim, response |-> ServerErrorResponse,
          events |-> <<"assert">>, allowed |-> <<>>]
    ELSE LET ip == client_ip(client)
             a == allow(lim, ip, t)
         IN  IF after_allow(a.result) = "response"
             THEN [outcome |-> "response", limiter |-> a.limiter,
                   response |-> throttle_response(a.limiter, ip, t),
                   events |-> <<"allow", "remaining">>, allowed |-> <<a.result>>]
             ELSE [outcome |-> "call_next", limiter |-> a.limiter,
                   response |-> Response(0, NoHeaders),
                   events |-> <<"allow">>, allowed |-> <<a.result>>]

\* response = await call_next(request); return response
IpLimiterMiddleware_return(response) == response

-----------------------------------------------------------------------------
(* The verification capability signer.verify(key, crypto, data, signature) *)

\* an unforgeable signature: it determines the key, the scheme and the message
Sign(key, crypto, data) == key \o <<crypto>> \o data

verify(key, crypto, data, signature) == signature = Sign(key, crypto, data)

-----------------------------------------------------------------------------
(* The signature stage: input_middleware *)

required_headers == <<"x-signature", "x-key", "x-crypto">>

\* value = headers.get(required_header); if not value: ...
header_falsy(headers, required_header) ==
    required_header \notin DOMAIN headers \/ headers[required_header] = <<>>

\* the message does not say which header
missing_header_message_generic(required_header) == <<"Missing header">>

\* f"Missing header: {required_header}"
missing_header_message(required_header) == <<"Missing header: ", required_header>>

\* the loop of _get_headers_dict: the first header without a value ends it
RECURSIVE _get_headers_loop(_, _, _)
_get_headers_loop(headers, required, headers_dict) ==
    IF required = <<>>
    THEN [success |-> TRUE, error |-> Response(0, NoHeaders), headers_dict |-> headers_dict]
    ELSE LET required_header == Head(required)
         IN  IF header_falsy(headers, required_header)
             THEN [success |-> FALSE,
                   error |-> _return_error(400, missing_header_message(required_header)),
                   headers_dict |-> headers_dict]
             ELSE _get_headers_loop(headers, Tail(required),
                                    (required_header :> headers[required_header]) @@ headers_dict)

_get_headers_dict(headers, required) == _get_headers_loop(headers, required, NoHeaders)

\* the request's _receive as the framework set it: it reads the connection
OwnReceive == <<>>

\* the closure peek_body installs: it answers the captured body on every call
ReplayReceive(body) == <<body>>

\* the connection of a request with the given body: one http.request message
Wire(body) == <<body>>

\* await request.receive(): the body of the message and the request afterwards;
\* a connection that has been read through has no more bytes to give
receive(request) ==
    IF request._receive # OwnReceive
    THEN [body |-> request._receive[1], request |-> request]
    ELSE IF request.wire # <<>>
    THEN [body |-> Head(request.wire), request |-> [request EXCEPT !.wire = Tail(@)]]
    ELSE [body |-> <<>>, request |-> request]

\* await request.body() of a Request object built over the request's receive
request_body(request) == receive(request)

\* peek_body without the replacement of request._receive
peek_body_consuming(request) == request_body(request)

\* body = await peek_body(request): the bytes input_middleware works on, and
\* the request with _receive replaced by the closure over those bytes
peek_body(request) ==
    LET read == request_body(request)
    IN  [body |-> read.body,
         request |-> [read.request EXCEPT !._receive = ReplayReceive(read.body)]]

\* verify is handed an already consumed (empty) body
verify_message_empty(body) == <<>>

\* the message argument of signer.verify(key, crypto, body, signature)
verify_message(body) == body

\* the result of verify is not looked at
after_verify_forwards(verified) == "call_next"

\* if not verified: return 401, else call_next
after_verify(verified) == IF ~verified THEN "response" ELSE "call_next"

NoCalls == <<>>

\* one verify call as it was made
VerifyCall(key, crypto, data, signature) ==
    [key |-> key, crypto |-> crypto, data |-> data, signature |-> signature,
     result |-> verify(key, crypto, data, signature)]

StageResult(outcome, response, events, verify_calls) ==
    [outcome |-> outcome, response |-> response, events |-> events,
     verify_calls |-> verify_calls]

\* input_middleware up to its return, its exception or its call_next
input_middleware(request) ==
    LET body == peek_body(request).body
        got == _get_headers_dict(request.headers, required_headers)
    IN  IF ~got.success
        THEN StageResult("response", got.error, <<"peek_body", "get_headers">>, NoCalls)
        ELSE
        LET signature == got.headers_dict["x-signature"]
            key == got.headers_dict["x-key"]
            x_crypto == got.headers_dict["x-crypto"]
        IN  IF int_raises(x_crypto)
            THEN StageResult("raise", ServerErrorResponse,
                             <<"peek_body", "get_headers", "int">>, NoCalls)
            ELSE IF ~is_hex_string(key)
            THEN StageResult("response", _return_error(400, <<"X-Key should be a hex value">>),
                             <<"peek_body", "get_headers", "int", "is_hex_string">>, NoCalls)
            ELSE IF parse_hex_raises(signature)
            THEN StageResult("raise", ServerErrorResponse,
                             <<"peek_body", "get_headers", "int", "is_hex_string",
                               "parse_hex">>, NoCalls)
            ELSE IF parse_hex_raises(key)
            THEN StageResult("raise", ServerErrorResponse,
                             <<"peek_body", "get_headers", "int", "is_hex_string",
                               "parse_hex", "parse_hex">>, NoCalls)
            ELSE
            LET call == VerifyCall(parse_hex(key), int_value(x_crypto),
                                   verify_message(body), parse_hex(signature))
                events == <<"peek_body", "get_headers", "int", "is_hex_string",
                            "parse_hex", "parse_hex", "verify">>
            IN  IF after_verify(call.result) = "response"
                THEN StageResult("response", SignatureMismatchResponse, events, <<call>>)
                ELSE StageResult("call_next", Response(0, NoHeaders), events, <<call>>)

\* response = await call_next(request); return response
input_middleware_return(response) == response

-----------------------------------------------------------------------------
(* Endpoints and the router *)

\* raw request bodies: B2 is B1 with one byte changed
B1 == <<7, 1>>
B2 == <<7, 2>>

\* module.get_endpoints(): name -> (params_model, fn), in declaration order; a
\* params_model is given by the bodies it validates
TheModule ==
    <<[name |-> "do_the_thing", params_model |-> {B1}, fn |-> "do_the_thing"],
      [name |-> "do_other", params_model |-> {B1, B2}, fn |-> "do_other"]>>

\* f"/method/{name}"
route_path(name) == <<"/method/", name>>

\* the endpoint_def a handler reads when it is called: the closure variable of
\* register_endpoints, which holds the last item once the loop has ended
handler_endpoint_def(endpoints, i) == endpoints[Len(endpoints)]

\* handlers that take the body without a typed Body parameter
register_endpoints_untyped(endpoints) ==
    [i \in 1..Len(endpoints) |->
        [path |-> route_path(endpoints[i].name),
         Body |-> UNION {endpoints[j].params_model : j \in 1..Len(endpoints)},
         endpoint_def |-> handler_endpoint_def(endpoints, i)]]

\* the loop of register_endpoints: class Body is built from the item of the iteration
register_endpoints(endpoints) ==
    [i \in 1..Len(endpoints) |->
        [path |-> route_path(endpoints[i].name),
         Body |-> endpoints[i].params_model,
         endpoint_def |-> handler_endpoint_def(endpoints, i)]]

RouterResult(outcome, response, events, handler_calls, read) ==
    [outcome |-> outcome, response |-> response, events |-> events,
     handler_calls |-> handler_calls, body_reads |-> <<read.body>>,
     request |-> read.request]

\* routing, the body read from the request, its validation against Body, then
\* handler(body)
router(routes, request, fn_raises) ==
    LET matches == {i \in 1..Len(routes) : routes[i].path = request.path}
    IN  IF matches = {}
        THEN [RouterResult("response", Response(404, NoHeaders), <<"route">>, <<>>,
                           [body |-> <<>>, request |-> request])
                EXCEPT !.body_reads = <<>>]
        ELSE
        LET route == routes[CHOOSE i \in matches : \A j \in matches : i <= j]
            read == request_body(request)
        IN  IF read.body \notin route.Body
            THEN RouterResult("response", ValidationErrorResponse,
                              <<"route", "validate">>, <<>>, read)
            ELSE IF fn_raises
            THEN RouterResult("raise", ServerErrorResponse,
                              <<"route", "validate", "handler">>,
                              <<[fn |-> route.endpoint_def.fn, params |-> read.body]>>, read)
            ELSE RouterResult("response", HandlerResponse(route.endpoint_def.fn),
                              <<"route", "validate", "handler">>,
                              <<[fn |-> route.endpoint_def.fn, params |-> read.body]>>, read)

-----------------------------------------------------------------------------
(* ModuleServer *)

\* Starlette's add_middleware puts the new middleware in front: the middleware
\* added last is the outermost one
add_middleware(user_middleware, cls) == <<cls>> \o user_middleware

\* self._app.middleware('http')(input_middleware)
register_middleware(a) ==
    [a EXCEPT !.user_middleware = add_middleware(@, "input_middleware")]

\* the two registrations of __init__ in the other order
ModuleServer_init_limiter_first(module) ==
    LET a0 == [user_middleware |-> <<>>, routes |-> register_endpoints(module)]
        a1 == [a0 EXCEPT !.user_middleware = add_middleware(@, "IpLimiterMiddleware")]
    IN  register_middleware(a1)

\* ModuleServer.__init__: FastAPI(), register_endpoints(), register_middleware(),
\* then add_middleware(IpLimiterMiddleware, limiter=ip_limiter)
ModuleServer_init(module) ==
    LET a0 == [user_middleware |-> <<>>, routes |-> register_endpoints(module)]
        a1 == register_middleware(a0)
    IN  [a1 EXCEPT !.user_middleware = add_middleware(@, "IpLimiterMiddleware")]

\* the stages a request goes through, outermost first
stack(a) == a.user_middleware \o <<"router">>

\* what each middleware on the way back does to the response of the inner stage
RECURSIVE unwind(_, _, _)
unwind(a, depth, response) ==
    IF depth = 0 THEN response
    ELSE LET cls == stack(a)[depth]
             out == IF cls = "IpLimiterMiddleware" THEN IpLimiterMiddleware_return(response)
                    ELSE input_middleware_return(response)
         IN  unwind(a, depth - 1, out)

-----------------------------------------------------------------------------
(* Requests *)

AllRequests == {1, 2}

IdleRequest ==
    [pc |-> "idle", depth |-> 0, client |-> <<>>, headers |-> NoHeaders, body |-> <<>>,
     path |-> <<>>, events |-> <<>>, allowed |-> <<>>, verify_calls |-> <<>>,
     handler_calls |-> <<>>, response |-> <<>>, wire |-> <<>>, _receive |-> OwnReceive,
     body_reads |-> <<>>]

\* a header that the request does not carry
Absent == <<"absent">>

Headers(x_signature, x_key, x_crypto) ==
    LET given == ("x-signature" :> x_signature) @@ ("x-key" :> x_key) @@ ("x-crypto" :> x_crypto)
    IN  [h \in {n \in DOMAIN given : given[n] # Absent} |-> given[h]]

HeaderMaps(signatures, keys, cryptos) ==
    {Headers(s, k, c) : s \in signatures, k \in keys, c \in cryptos}

\* the signing key AB 12 and what clients send for it
K1 == <<171, 18>>
Key_plain == <<"A", "B", "1", "2">>
Key_lower == <<"a", "b", "1", "2">>
Key_0x == <<"0", "x", "A", "B", "1", "2">>
Key_nonhex == <<"z", "z", "1", "1">>
Key_odd == <<"A", "B", "C">>

Sig_B1 == to_hex(Sign(K1, 1, B1))
Sig_B2 == to_hex(Sign(K1, 1, B2))
Sig_0x_B1 == <<"0", "x">> \o Sig_B1
Sig_nonhex == <<"z", "z">>
Sig_odd == <<"a", "b", "c">>

Clients == {<<>>, <<"">>, <<"A">>}
SigHeaders == {Absent, <<>>, Sig_B1, Sig_B2, Sig_0x_B1, Sig_nonhex, Sig_odd}
KeyHeaders == {Absent, <<>>, Key_plain, Key_lower, Key_0x, Key_nonhex, Key_odd}
CryptoHeaders == {Absent, <<>>, <<"1">>, <<"x">>}
Bodies == {B1, B2}
Paths == {route_path(TheModule[i].name) : i \in 1..Len(TheModule)}

\* the stage a running request is about to enter
StageAt(r) == stack(app)[req[r].depth]

\* a stage that answers with a rejection sends the request through the
\* pipeline once more
Advance_retrying(q, outcome, response, events) ==
    LET seen == [q EXCEPT !.events = @ \o events]
        tried == Cardinality({i \in DOMAIN q.events : q.events[i] = "allow"})
    IN  IF outcome = "call_next" THEN [seen EXCEPT !.depth = @ + 1]
        ELSE IF outcome = "raise"
        THEN [seen EXCEPT !.pc = "done", !.response = <<ServerErrorResponse>>]
        ELSE IF q.depth > 1 /\ tried < 2 THEN [seen EXCEPT !.depth = 1]
        ELSE [seen EXCEPT !.pc = "done",
                          !.response = <<unwind(app, q.depth - 1, response)>>]

\* a stage has ended for request q: it called the next stage, raised, or answered
Advance(q, outcome, response, events) ==
    LET seen == [q EXCEPT !.events = @ \o events]
    IN  IF outcome = "call_next" THEN [seen EXCEPT !.depth = @ + 1]
        ELSE IF outcome = "raise"
        THEN [seen EXCEPT !.pc = "done", !.response = <<ServerErrorResponse>>]
        ELSE [seen EXCEPT !.pc = "done",
                          !.response = <<unwind(app, q.depth - 1, response)>>]

-----------------------------------------------------------------------------
(* Actions *)

\* a request arrives at the server
NewRequest(r, clients, headers, bodies, paths) ==
    /\ req[r].pc = "idle"
    /\ \E c \in clients, h \in headers, b \in bodies, p \in paths :
          req' = [req EXCEPT ![r] = [IdleRequest EXCEPT !.pc = "running", !.depth = 1,
                                                        !.client = c, !.headers = h,
                                                        !.body = b, !.path = p,
                                                        !.wire = Wire(b)]]
    /\ UNCHANGED <<app, limiter, now, stats, shadow>>

\* a dispatch whose allow is interleaved with the allow of another request that
\* is in the throttle too: the other's write of the bucket overwrites its debit
ThrottleStage_lost_update(r) ==
    /\ req[r].pc = "running"
    /\ StageAt(r) = "IpLimiterMiddleware"
    /\ LET d == IpLimiterMiddleware_dispatch(limiter, req[r].client, now)
           interleaved == \E o \in AllRequests \ {r} :
                             /\ req[o].pc = "running"
                             /\ req[o].depth = req[r].depth
                             /\ req[o].client = req[r].client
       IN  /\ limiter' = IF interleaved THEN limiter ELSE d.limiter
           /\ req' = [req EXCEPT ![r] =
                        [Advance(req[r], d.outcome, d.response, d.events)
                            EXCEPT !.allowed = d.allowed]]
    /\ UNCHANGED <<app, now, shadow>>

\* IpLimiterMiddleware.dispatch runs for the request
ThrottleStage(r) ==
    /\ req[r].pc = "running"
    /\ StageAt(r) = "IpLimiterMiddleware"
    /\ \E d \in {IpLimiterMiddleware_dispatch(limiter, req[r].client, now)} :
           /\ limiter' = d.limiter
           /\ req' = [req EXCEPT ![r] =
                        [Advance(req[r], d.outcome, d.response, d.events)
                            EXCEPT !.allowed = d.allowed]]
    /\ UNCHANGED <<app, now, shadow>>

\* an input_middleware that gives the token back when it does not forward
SignatureStage_refunding(r) ==
    /\ req[r].pc = "running"
    /\ StageAt(r) = "input_middleware"
    /\ LET d == input_middleware(req[r])
           peeked == peek_body(req[r]).request
           ip == client_ip(req[r].client)
       IN  /\ req' = [req EXCEPT ![r] =
                        [Advance(peeked, d.outcome, d.response, d.events)
                            EXCEPT !.verify_calls = d.verify_calls]]
           /\ limiter' = IF d.outcome = "call_next" THEN limiter
                          ELSE [limiter EXCEPT !.buckets[ip].tokens = @ + Scale]
    /\ UNCHANGED <<app, now, stats, shadow>>

\* input_middleware runs for the request
SignatureStage(r) ==
    /\ req[r].pc = "running"
    /\ StageAt(r) = "input_middleware"
    /\ \E d \in {input_middleware(req[r])}, peeked \in {peek_body(req[r]).request} :
           req' = [req EXCEPT ![r] =
                     [Advance(peeked, d.outcome, d.response, d.events)
                         EXCEPT !.verify_calls = d.verify_calls]]
    /\ UNCHANGED <<app, limiter, now, stats, shadow>>

\* the router validates the body and calls the handler, which may raise
Dispatch(r) ==
    /\ req[r].pc = "running"
    /\ StageAt(r) = "router"
    /\ \E fn_raises \in BOOLEAN :
          \E d \in {router(app.routes, req[r], fn_raises)} :
              req' = [req EXCEPT ![r] =
                        [Advance(d.request, d.outcome, d.response, d.events)
                            EXCEPT !.handler_calls = d.handler_calls,
                                   !.body_reads = d.body_reads]]
    /\ UNCHANGED <<app, limiter, now, stats, shadow>>

\* the response has been sent: the exchange is over
Close(r) ==
    /\ req[r].pc = "done"
    /\ req' = [req EXCEPT ![r] = IdleRequest]
    /\ UNCHANGED <<app, limiter, now, stats, shadow>>

\* the clock advances by one tick
Tick ==
    /\ now < MaxTime
    /\ now' = now + 1
    /\ UNCHANGED <<app, limiter, req, stats, shadow>>

-----------------------------------------------------------------------------
(* The server with a small limiter passed as ip_limiter, one request at a time *)

NoStats == [k \in {} |-> <<>>]

Init ==
    /\ app = ModuleServer_init(TheModule)
    /\ limiter = IpLimiterMiddleware_init(
                    <<TokenBucketLimiter(CustomBucketSize, DefaultRefillRate)>>)
    /\ now = 0
    /\ req = [r \in AllRequests |-> IdleRequest]
    /\ stats = NoStats
    /\ shadow = limiter

AllHeaders == HeaderMaps(SigHeaders, KeyHeaders, CryptoHeaders)

Throttle(r) == ThrottleStage(r) /\ UNCHANGED stats

Next ==
    \/ NewRequest(1, Clients, AllHeaders, Bodies, Paths)
    \/ Throttle(1)
    \/ SignatureStage(1)
    \/ Dispatch(1)
    \/ Close(1)
    \/ Tick

Spec == Init /\ [][Next]_vars

-----------------------------------------------------------------------------
(* Vocabulary of the claims *)

ThrottleEvents == {"assert", "allow", "remaining"}
SignatureEvents == {"peek_body", "get_headers", "int", "is_hex_string", "parse_hex", "verify"}
DispatchEvents == {"route", "validate", "handler"}

Happened(q, e) == e \in Range(q.events)

\* position of the first occurrence of an event of the set, 0 if there is none
FirstOf(q, es) ==
    IF \E i \in DOMAIN q.events : q.events[i] \in es
    THEN CHOOSE i \in DOMAIN q.events :
            q.events[i] \in es /\ \A j \in 1..(i - 1) : q.events[j] \notin es
    ELSE 0

IsDone(q) == q.pc = "done"

PassedThrottle(q) == q.allowed = <<TRUE>>

\* the headers without a value, in the order they are required
MissingHeaders(q) == {h \in Range(required_headers) : h \notin DOMAIN q.headers \/ q.headers[h] = <<>>}

\* hexadecimal text of whole bytes, without prefix
PlainHex(s) == is_hex_string(s) /\ Len(s) % 2 = 0

\* hexadecimal text of whole bytes, with or without the 0x prefix
PrefixedHex(s) == has_0x_prefix(s) /\ PlainHex(strip_0x(s))

\* the request carries a key, a scheme and a signature that decode, and the
\* signature is one over the request's own body
Authenticated(q) ==
    /\ MissingHeaders(q) = {}
    /\ ~int_raises(q.headers["x-crypto"])
    /\ PlainHex(q.headers["x-key"]) \/ PrefixedHex(q.headers["x-key"])
    /\ PlainHex(q.headers["x-signature"]) \/ PrefixedHex(q.headers["x-signature"])
    /\ parse_hex(q.headers["x-signature"]) =
          Sign(parse_hex(q.headers["x-key"]), int_value(q.headers["x-crypto"]), q.body)

IsThrottleResponse(resp) ==
    /\ resp.status = 400
    /\ "X-RateLimit-Remaining" \in DOMAIN resp.headers

-----------------------------------------------------------------------------
(* C1 *)

\* C1: a request that is over quota for its client (allow answers false) and
\* unauthenticated is answered by the throttle (400 with X-RateLimit-Remaining);
\* neither header extraction nor verify runs for it; and whatever a request does
\* first, it does in the throttle stage.
C1_ThrottlePrecedesSignature ==
    \A r \in AllRequests :
        LET q == req[r]
        IN  /\ q.events # <<>> => q.events[1] \in ThrottleEvents
            /\ (IsDone(q) /\ q.allowed = <<FALSE>> /\ ~Authenticated(q)) =>
                  /\ IsThrottleResponse(q.response[1])
                  /\ \A e \in SignatureEvents : ~Happened(q, e)
                  /\ q.verify_calls = <<>>

C1_Witness ==
    \E r \in AllRequests :
        /\ IsDone(req[r])
        /\ req[r].allowed = <<FALSE>>
        /\ MissingHeaders(req[r]) # {}

-----------------------------------------------------------------------------
(* C2 *)

\* the route the request addresses accepts its body
ParamsValid(q) ==
    \E i \in 1..Len(TheModule) :
        route_path(TheModule[i].name) = q.path /\ q.body \in TheModule[i].params_model

\* the headers decode but the signature is not one over the body
SignatureFails(q) ==
    /\ MissingHeaders(q) = {}
    /\ ~int_raises(q.headers["x-crypto"])
    /\ PlainHex(q.headers["x-key"])
    /\ PlainHex(q.headers["x-signature"]) \/ PrefixedHex(q.headers["x-signature"])
    /\ ~Authenticated(q)

\* C2: if the router (validation or handler) ran for a request, then before it
\* allow answered true and the one verify call, made on the request's body,
\* answered true; a request whose signature fails and whose parameters are
\* invalid ends as 401, not as a validation error.
C2_DispatchOnlyAfterBothStages ==
    \A r \in AllRequests :
        LET q == req[r]
        IN  /\ (\E e \in DispatchEvents : Happened(q, e)) =>
                  /\ q.allowed = <<TRUE>>
                  /\ Len(q.verify_calls) = 1
                  /\ q.verify_calls[1].result
                  /\ q.verify_calls[1].data = q.body
                  /\ FirstOf(q, {"allow"}) > 0
                  /\ FirstOf(q, {"allow"}) < FirstOf(q, {"verify"})
                  /\ FirstOf(q, {"verify"}) < FirstOf(q, DispatchEvents)
            /\ (IsDone(q) /\ PassedThrottle(q) /\ SignatureFails(q) /\ ~ParamsValid(q)) =>
                  /\ q.response[1].status = 401
                  /\ \A e \in DispatchEvents : ~Happened(q, e)

C2_Witness ==
    \E r \in AllRequests :
        /\ IsDone(req[r])
        /\ Happened(req[r], "handler")
        /\ req[r].verify_calls # <<>>

C2_WitnessBothFail ==
    \E r \in AllRequests :
        /\ IsDone(req[r])
        /\ PassedThrottle(req[r])
        /\ SignatureFails(req[r])
        /\ ~ParamsValid(req[r])

-----------------------------------------------------------------------------
(* C3 *)

\* input_middleware has run for the request
SignatureStageEnded(q) == Happened(q, "peek_body")

\* input_middleware called the next stage
Forwarded(q) == SignatureStageEnded(q) /\ q.depth = Len(stack(app))

Keys == {K1}
Schemes == {1}

\* the well-formed x-key texts for a key: its hexadecimal digits, either case
KeyTexts(key) == {hex_text(key, LowerHex), hex_text(key, UpperHex)}

\* the x-signature texts for a signature: bytes.hex(), with or without 0x
SignatureTexts(signature) == {to_hex(signature), <<"0", "x">> \o to_hex(signature)}

\* C3: a request past the throttle with the x-key text of K, the x-crypto text of
\* S and an x-signature made over B is forwarded when its body is B and rejected
\* with 401, short of the router, when its body is another one; verify is called
\* once, on K, S, the raw body and the signature.
C3_SignatureRoundTrip ==
    \A r \in AllRequests, K \in Keys, S \in Schemes, B \in Bodies :
        LET q == req[r]
        IN  ( /\ PassedThrottle(q)
              /\ SignatureStageEnded(q)
              /\ MissingHeaders(q) = {}
              /\ q.headers["x-key"] \in KeyTexts(K)
              /\ q.headers["x-crypto"] = str_int(S)
              /\ q.headers["x-signature"] \in SignatureTexts(Sign(K, S, B)) ) =>
            /\ q.verify_calls =
                  <<[key |-> K, crypto |-> S, data |-> q.body,
                     signature |-> Sign(K, S, B), result |-> q.body = B]>>
            /\ q.body = B => Forwarded(q)
            /\ q.body # B =>
                  /\ IsDone(q)
                  /\ q.response[1].status = 401
                  /\ ~Forwarded(q)
                  /\ \A e \in DispatchEvents : ~Happened(q, e)

C3_Witness ==
    \E r \in AllRequests :
        /\ IsDone(req[r])
        /\ PassedThrottle(req[r])
        /\ req[r].headers = Headers(Sig_B1, Key_plain, <<"1">>)
        /\ req[r].body = B2
        /\ req[r].response[1].status = 401

C3_WitnessAccepted ==
    \E r \in AllRequests :
        /\ Forwarded(req[r])
        /\ req[r].headers = Headers(Sig_B1, Key_lower, <<"1">>)
        /\ req[r].body = B1

-----------------------------------------------------------------------------
(* C4 *)

\* the first required header the request has no value for
FirstMissing(q) ==
    required_headers[CHOOSE i \in 1..Len(required_headers) :
        /\ required_headers[i] \in MissingHeaders(q)
        /\ \A j \in 1..(i - 1) : required_headers[j] \notin MissingHeaders(q)]

\* C4: a request past the throttle that lacks a value for one of x-signature,
\* x-key, x-crypto is rejected with 400 and the message "Missing header: <name>"
\* naming the first such header, and verify is not invoked for it.
C4_MissingHeaderRejected ==
    \A r \in AllRequests :
        LET q == req[r]
        IN  (PassedThrottle(q) /\ SignatureStageEnded(q) /\ MissingHeaders(q) # {}) =>
            /\ IsDone(q)
            /\ q.response[1].status = 400
            /\ q.response[1].body =
                  [shape |-> "error", code |-> 400,
                   message |-> <<"Missing header: ", FirstMissing(q)>>]
            /\ q.verify_calls = <<>>
            /\ ~Happened(q, "verify")

C4_Witness ==
    \E r \in AllRequests :
        /\ IsDone(req[r])
        /\ PassedThrottle(req[r])
        /\ "x-signature" \in DOMAIN req[r].headers
        /\ "x-key" \notin DOMAIN req[r].headers
        /\ req[r].response[1].status = 400

-----------------------------------------------------------------------------
(* C5 *)

\* C5: an x-key of "0x" followed by hex digits is accepted by the key validation
\* and reaches verify decoded to the bytes of the digits after the prefix.
C5_PrefixedKeyAccepted ==
    \A r \in AllRequests :
        LET q == req[r]
        IN  ( /\ PassedThrottle(q)
              /\ SignatureStageEnded(q)
              /\ MissingHeaders(q) = {}
              /\ PrefixedHex(q.headers["x-key"])
              /\ ~int_raises(q.headers["x-crypto"])
              /\ PlainHex(q.headers["x-signature"]) \/ PrefixedHex(q.headers["x-signature"]) ) =>
            /\ Len(q.verify_calls) = 1
            /\ q.verify_calls[1].key = fromhex(strip_0x(q.headers["x-key"]))

\* what the code does with such a key: the non-hex rejection, before any decoding
C5_PrefixedKeyRejected ==
    \A r \in AllRequests :
        LET q == req[r]
        IN  ( /\ PassedThrottle(q)
              /\ SignatureStageEnded(q)
              /\ MissingHeaders(q) = {}
              /\ PrefixedHex(q.headers["x-key"])
              /\ ~int_raises(q.headers["x-crypto"]) ) =>
            /\ IsDone(q)
            /\ q.response[1] = _return_error(400, <<"X-Key should be a hex value">>)
            /\ q.verify_calls = <<>>

C5_Witness ==
    \E r \in AllRequests :
        /\ IsDone(req[r])
        /\ PassedThrottle(req[r])
        /\ req[r].headers = Headers(Sig_B1, Key_0x, <<"1">>)
        /\ req[r].body = B1

-----------------------------------------------------------------------------
(* C6 *)

\* hexadecimal under neither reading: not hex digits, with or without 0x
NotHexKey(k) == ~is_hex_string(k) /\ ~(has_0x_prefix(k) /\ is_hex_string(strip_0x(k)))

\* C6: a request past the throttle with all three headers and an x-key that is
\* not hexadecimal is rejected with 400 before any hex decoding and before
\* verify, whatever x-signature and x-crypto are.
C6_NonHexKeyRejectedFirst ==
    \A r \in AllRequests :
        LET q == req[r]
        IN  ( /\ PassedThrottle(q)
              /\ SignatureStageEnded(q)
              /\ MissingHeaders(q) = {}
              /\ NotHexKey(q.headers["x-key"]) ) =>
            /\ IsDone(q)
            /\ q.response[1].status = 400
            /\ ~Happened(q, "parse_hex")
            /\ ~Happened(q, "verify")

\* what the code guarantees: the same, when x-crypto is a decimal numeral;
\* otherwise int() has raised before the key was looked at
C6_NonHexKeyAfterInt ==
    \A r \in AllRequests :
        LET q == req[r]
        IN  ( /\ PassedThrottle(q)
              /\ SignatureStageEnded(q)
              /\ MissingHeaders(q) = {}
              /\ NotHexKey(q.headers["x-key"]) ) =>
            /\ IsDone(q)
            /\ ~Happened(q, "parse_hex")
            /\ ~Happened(q, "verify")
            /\ q.response[1].status = IF int_raises(q.headers["x-crypto"]) THEN 500 ELSE 400

C6_Witness ==
    \E r \in AllRequests :
        /\ IsDone(req[r])
        /\ PassedThrottle(req[r])
        /\ req[r].headers = Headers(Sig_B1, Key_nonhex, <<"x">>)

-----------------------------------------------------------------------------
(* C7 *)

\* C7: the signature stage ends in a 400 rejection, a 401 rejection or in
\* forwarding to the router, whatever the header values are.
C7_ThreeOutcomes ==
    \A r \in AllRequests :
        LET q == req[r]
        IN  (PassedThrottle(q) /\ SignatureStageEnded(q)) =>
            \/ Forwarded(q)
            \/ IsDone(q) /\ q.response[1].status \in {400, 401}

\* the headers for which the stage raises instead
StageRaises(q) ==
    /\ MissingHeaders(q) = {}
    /\ \/ int_raises(q.headers["x-crypto"])
       \/ /\ is_hex_string(q.headers["x-key"])
          /\ \/ parse_hex_raises(q.headers["x-signature"])
             \/ Len(q.headers["x-key"]) % 2 = 1

\* what the code does: the three outcomes, or an unhandled fault exactly when
\* x-crypto is no numeral, x-signature is no hex text or a hex text is odd
C7_OutcomesWithFault ==
    \A r \in AllRequests :
        LET q == req[r]
        IN  (PassedThrottle(q) /\ SignatureStageEnded(q)) =>
            IF StageRaises(q)
            THEN IsDone(q) /\ q.response[1] = ServerErrorResponse /\ q.verify_calls = <<>>
            ELSE \/ Forwarded(q)
                 \/ IsDone(q) /\ q.response[1].status \in {400, 401}

C7_Witness ==
    \E r \in AllRequests :
        /\ IsDone(req[r])
        /\ PassedThrottle(req[r])
        /\ req[r].headers = Headers(Sig_B1, Key_plain, <<"x">>)

-----------------------------------------------------------------------------
(* C8 *)

\* the throttle stage has just denied request r
ThrottleDenies(r) == req[r].allowed = <<>> /\ req'[r].allowed = <<FALSE>>

\* C8: a request that allow denies is answered at once with 400 and
\* X-RateLimit-Remaining = str(remaining(identity)), and no later stage runs for
\* it; a request that allow admits is forwarded, and the response it ends with
\* carries no X-RateLimit-Remaining.
C8_ThrottleContract ==
    /\ [](\A r \in AllRequests :
            LET q == req[r]
            IN  /\ q.allowed = <<FALSE>> =>
                      /\ IsDone(q)
                      /\ q.response[1].status = 400
                      /\ DOMAIN q.response[1].headers = {"X-RateLimit-Remaining"}
                      /\ q.events = <<"allow", "remaining">>
                      /\ q.verify_calls = <<>>
                      /\ q.handler_calls = <<>>
                /\ q.allowed = <<TRUE>> =>
                      /\ q.depth >= 2
                      /\ IsDone(q) => "X-RateLimit-Remaining" \notin DOMAIN q.response[1].headers)
    /\ [][\A r \in AllRequests :
            ThrottleDenies(r) =>
                req'[r].response[1].headers["X-RateLimit-Remaining"] =
                    str_int(remaining(limiter', req[r].client[1], now'))]_vars

C8_Witness ==
    \E r \in AllRequests :
        /\ IsDone(req[r])
        /\ req[r].allowed = <<FALSE>>
        /\ req[r].response[1].headers["X-RateLimit-Remaining"] = <<"0">>

C8_WitnessAdmitted ==
    \E r \in AllRequests :
        /\ IsDone(req[r])
        /\ req[r].allowed = <<TRUE>>
        /\ req[r].response[1].status = 200

-----------------------------------------------------------------------------
(* The throttle boundary: the default limiter and one client that sends well-   *)
(* formed requests, and waits only after it has been throttled                  *)

NoCount == [calls |-> 0, grants |-> 0]

\* the allow calls made for a key at a time, and how many answered true
CountAt(key, t) == IF <<key, t>> \in DOMAIN stats THEN stats[<<key, t>>] ELSE NoCount

TotalCalls(key) ==
    LET RECURSIVE upto(_)
        upto(t) == IF t < 0 THEN 0 ELSE CountAt(key, t).calls + upto(t - 1)
    IN  upto(MaxTime)

\* ThrottleStage, with its allow call counted
ThrottleCounted(r) ==
    /\ ThrottleStage(r)
    /\ LET key == req[r].client[1]
           old == CountAt(key, now)
       IN  stats' = (<<key, now>> :>
                        [calls |-> old.calls + 1,
                         grants |-> old.grants + (IF req'[r].allowed = <<TRUE>> THEN 1 ELSE 0)])
                    @@ stats

GoodHeaders == {Headers(Sig_B1, Key_plain, <<"1">>)}

BoundaryRequest(r) ==
    /\ TotalCalls("A") < DefaultBucketSize + ExtraCalls
    /\ NewRequest(r, {<<"A">>}, GoodHeaders, {B1}, {route_path("do_the_thing")})

\* the client waits one tick after a throttle response
BackOff(r) ==
    /\ IsDone(req[r])
    /\ req[r].allowed = <<FALSE>>
    /\ Tick

InitBoundary ==
    /\ app = ModuleServer_init(TheModule)
    /\ limiter = IpLimiterMiddleware_init(<<>>)
    /\ now = 0
    /\ req = [r \in AllRequests |-> IdleRequest]
    /\ stats = NoStats
    /\ shadow = limiter

NextBoundary ==
    \/ BoundaryRequest(1)
    \/ ThrottleCounted(1)
    \/ SignatureStage(1)
    \/ Dispatch(1)
    \/ Close(1)
    \/ BackOff(1)

SpecBoundary == InitBoundary /\ [][NextBoundary]_vars

\* C9: with the default limiter and a fresh client, of the calls made with no
\* elapsed time the first 200 are admitted and no other; none is admitted before
\* 1/15 second has passed; of the calls made 1/15 second later exactly one is.
C9_ThrottleBoundary ==
    LET wait == TicksPerSecond \div 15
    IN  /\ CountAt("A", 0).grants = Min(CountAt("A", 0).calls, 200)
        /\ \A t \in 1..(wait - 1) : CountAt("A", t).grants = 0
        /\ CountAt("A", wait).grants = Min(CountAt("A", wait).calls, 1)

C9_Witness ==
    LET wait == TicksPerSecond \div 15
    IN  /\ CountAt("A", 0) = [calls |-> 201, grants |-> 200]
        /\ CountAt("A", wait) = [calls |-> 2, grants |-> 1]

-----------------------------------------------------------------------------
(* Two runs of the throttle side by side: client B sends the same requests at   *)
(* the same times in both, the other client sends what it likes in each.        *)
(* limiter is the limiter of the first run, shadow that of the second.          *)

OtherClients == {<<"A">>}

\* what a client sees of the throttle stage: admitted or the throttle response
Seen(d) == [outcome |-> d.outcome, allowed |-> d.allowed, response |-> d.response]

NothingSeen == [outcome |-> "none", allowed |-> <<>>, response |-> Response(0, NoHeaders)]

\* a request of B goes through IpLimiterMiddleware.dispatch in both runs
RequestOfBInBothRuns ==
    LET d1 == IpLimiterMiddleware_dispatch(limiter, <<"B">>, now)
        d2 == IpLimiterMiddleware_dispatch(shadow, <<"B">>, now)
    IN  /\ limiter' = d1.limiter
        /\ shadow' = d2.limiter
        /\ stats' = [first |-> Seen(d1), second |-> Seen(d2)]
        /\ UNCHANGED <<app, now, req>>

\* a request of another client goes through dispatch in the first run only
RequestInFirstRun ==
    \E c \in OtherClients :
        /\ limiter' = IpLimiterMiddleware_dispatch(limiter, c, now).limiter
        /\ UNCHANGED <<app, now, req, stats, shadow>>

\* a request of another client goes through dispatch in the second run only
RequestInSecondRun ==
    \E c \in OtherClients :
        /\ shadow' = IpLimiterMiddleware_dispatch(shadow, c, now).limiter
        /\ UNCHANGED <<app, now, req, stats, limiter>>

InitIsolation ==
    /\ app = ModuleServer_init(TheModule)
    /\ limiter = IpLimiterMiddleware_init(
                    <<TokenBucketLimiter(CustomBucketSize, DefaultRefillRate)>>)
    /\ shadow = limiter
    /\ now = 0
    /\ req = [r \in AllRequests |-> IdleRequest]
    /\ stats = [first |-> NothingSeen, second |-> NothingSeen]

NextIsolation ==
    \/ RequestOfBInBothRuns
    \/ RequestInFirstRun
    \/ RequestInSecondRun
    \/ Tick

SpecIsolation == InitIsolation /\ [][NextIsolation]_vars

\* C10: two runs that differ only in the requests of the other client give B
\* the same allow answers, the same throttle responses and the same remaining
\* count.
C10_PerIdentityIsolation ==
    /\ stats.first = stats.second
    /\ remaining(limiter, "B", now) = remaining(shadow, "B", now)

\* B is admitted in both runs while A is out of tokens in the first run only
C10_Witness ==
    /\ stats.first.allowed = <<TRUE>>
    /\ stats.second.allowed = <<TRUE>>
    /\ "A" \in DOMAIN limiter.buckets
    /\ limiter.buckets["A"].tokens = 0
    /\ "A" \notin DOMAIN shadow.buckets

-----------------------------------------------------------------------------
(* C11 *)

\* the fn the module declares for the endpoint a path addresses
DeclaredFn(path) ==
    LET i == CHOOSE j \in 1..Len(TheModule) : route_path(TheModule[j].name) = path
    IN  TheModule[i].fn

\* allow answered true for the request and its one verify call answered true
Admitted(q) ==
    /\ PassedThrottle(q)
    /\ Len(q.verify_calls) = 1
    /\ q.verify_calls[1].result

\* C11: a request admitted by both stages, addressed to the route of endpoint N
\* with parameters valid for N, invokes the fn declared for N and no other, once,
\* with the validated parameters, and the value fn returns is the response.
C11_HandlerOfAddressedEndpoint ==
    \A r \in AllRequests :
        LET q == req[r]
        IN  (IsDone(q) /\ Admitted(q) /\ ParamsValid(q)) =>
                /\ q.handler_calls = <<[fn |-> DeclaredFn(q.path), params |-> q.body]>>
                /\ q.response[1].status = 200 =>
                      q.response[1] = HandlerResponse(DeclaredFn(q.path))

\* a valid request to the first endpoint has run a handler
C11_Witness ==
    \E r \in AllRequests :
        /\ IsDone(req[r])
        /\ req[r].path = route_path("do_the_thing")
        /\ Happened(req[r], "handler")
        /\ req[r].handler_calls[1].fn = "do_other"

-----------------------------------------------------------------------------
(* C12 *)

\* C12: an admitted, authenticated request whose parameters do not match the
\* schema of the endpoint it addresses ends in the validation error and no
\* handler is invoked for it; whenever a handler runs, validation ran before it.
C12_ValidationBeforeHandler ==
    \A r \in AllRequests :
        LET q == req[r]
        IN  /\ (IsDone(q) /\ Admitted(q) /\ ~ParamsValid(q)) =>
                  /\ q.response[1] = ValidationErrorResponse
                  /\ q.handler_calls = <<>>
                  /\ ~Happened(q, "handler")
                  /\ Happened(q, "validate")
            /\ Happened(q, "handler") =>
                  /\ FirstOf(q, {"validate"}) > 0
                  /\ FirstOf(q, {"validate"}) < FirstOf(q, {"handler"})
                  /\ ParamsValid(q)

C12_Witness ==
    \E r \in AllRequests :
        /\ IsDone(req[r])
        /\ Admitted(req[r])
        /\ ~ParamsValid(req[r])
        /\ req[r].response[1].status = 422

-----------------------------------------------------------------------------
(* C13 *)

\* the request was answered by a stage of the pipeline before the router, and
\* not by a fault
Rejected(q) ==
    /\ IsDone(q)
    /\ ~Happened(q, "route")
    /\ q.response[1] # ServerErrorResponse

RateLimitRejection(q) == Rejected(q) /\ q.allowed = <<FALSE>>
MismatchRejection(q) == Rejected(q) /\ PassedThrottle(q) /\ q.verify_calls # <<>>
HeaderRejection(q) == Rejected(q) /\ PassedThrottle(q) /\ q.verify_calls = <<>>

ErrorShape(resp) ==
    /\ resp.body.shape = "error"
    /\ resp.body.code = resp.status
    /\ resp.body.message # <<>>

\* C13 as stated: the rate-limit, missing-header and non-hex-key rejections
\* carry {"error": {"code", "message"}} with code equal to the status, and the
\* signature mismatch carries a plain string.
C13_ErrorShapeEverywhere ==
    \A r \in AllRequests :
        LET q == req[r]
        IN  /\ (RateLimitRejection(q) \/ HeaderRejection(q)) => ErrorShape(q.response[1])
            /\ MismatchRejection(q) => q.response[1].body.shape = "string"

\* C13, amended: the missing-header and non-hex-key rejections carry
\* {"error": {"code", "message"}} with code equal to the status, the signature
\* mismatch carries a plain string, and the rate-limit rejection carries no
\* body at all, only the X-RateLimit-Remaining header.
C13_ErrorShapeOfSignatureStage ==
    \A r \in AllRequests :
        LET q == req[r]
        IN  /\ HeaderRejection(q) => ErrorShape(q.response[1])
            /\ MismatchRejection(q) =>
                  /\ q.response[1].body.shape = "string"
                  /\ q.response[1].status = 401
            /\ RateLimitRejection(q) =>
                  /\ q.response[1].body = EmptyBody
                  /\ IsThrottleResponse(q.response[1])

\* a throttled request has been answered
C13_Witness ==
    \E r \in AllRequests : RateLimitRejection(req[r])

\* a request without a key and a request with a key that is not hexadecimal
\* have been answered
C13_WitnessHeaders ==
    \E r \in AllRequests :
        /\ HeaderRejection(req[r])
        /\ "x-key" \in DOMAIN req[r].headers
        /\ req[r].headers["x-key"] = Key_nonhex

-----------------------------------------------------------------------------
(* C17 *)

\* C17: for every request forwarded by the signature stage, the bytes the
\* dispatcher reads (and validates, and hands to the handler) are exactly the
\* bytes passed to verify, and reading the body of the forwarded request once
\* more, or twice, gives those same bytes again.
C17_BodyReplayed ==
    \A r \in AllRequests :
        LET q == req[r]
        IN  (q.pc # "idle" /\ Admitted(q)) =>
                LET verified == q.verify_calls[1].data
                    first == request_body(q)
                    second == request_body(first.request)
                IN  /\ first.body = verified
                    /\ second.body = verified
                    /\ \A i \in DOMAIN q.body_reads : q.body_reads[i] = verified
                    /\ \A i \in DOMAIN q.handler_calls : q.handler_calls[i].params = verified
                    /\ Happened(q, "validate") => q.body_reads # <<>>

\* the dispatcher has read the body of a forwarded request and called a handler
C17_Witness ==
    \E r \in AllRequests :
        /\ IsDone(req[r])
        /\ Admitted(req[r])
        /\ req[r].body_reads = <<req[r].body>>
        /\ req[r].handler_calls # <<>>
        /\ req[r].wire = <<>>

-----------------------------------------------------------------------------
(* C14 *)

\* the capacity of the limiter's buckets, in the unit of the token counts
Capacity == limiter.bucket_size * Scale

\* the bucket of a key as a call at this instant would find it after its refill
Refilled(key) == refill(limiter, bucket_of(limiter, key, now), now)

\* C14: the token count of every bucket is at least 0 and at most the capacity
\* in every reachable state, also after the refill of a call made now; an allow
\* that answers true has found at least one token and takes exactly one; an
\* allow that answers false has found less than one and takes nothing.
C14_TokensWithinBounds ==
    /\ [](\A key \in DOMAIN limiter.buckets :
            /\ 0 <= limiter.buckets[key].tokens
            /\ limiter.buckets[key].tokens <= Capacity
            /\ Refilled(key).tokens <= Capacity)
    /\ [][\A r \in AllRequests :
            (req[r].allowed = <<>> /\ req'[r].allowed # <<>>) =>
                LET ip == client_ip(req[r].client)
                    found == Refilled(ip).tokens
                    left == limiter'.buckets[ip].tokens
                IN  /\ req'[r].allowed = <<TRUE>> => (found >= Scale /\ left = found - Scale)
                    /\ req'[r].allowed = <<FALSE>> => (found < Scale /\ left = found)]_vars

\* a denied request has left a part of a token in its bucket
C14_Witness ==
    \E r \in AllRequests :
        /\ req[r].allowed = <<FALSE>>
        /\ limiter.buckets[client_ip(req[r].client)].tokens > 0

\* the refill of a call made now would be cut at the capacity
C14_WitnessCapped ==
    \E key \in DOMAIN limiter.buckets :
        limiter.buckets[key].tokens + (now - limiter.buckets[key].last_refill) > Capacity

-----------------------------------------------------------------------------
(* C15 *)

\* the identities a request can come from
Identities == {"A", "B"}

\* C15: a step in which no time passes (allow calls included) never raises
\* remaining of any identity; a step in which time passes and no allow is made
\* never lowers it; and remaining is never above the bucket size.
C15_RemainingMonotone ==
    /\ [](\A key \in Identities : remaining(limiter, key, now) <= limiter.bucket_size)
    /\ [][\A key \in Identities :
            /\ now' = now =>
                  remaining(limiter', key, now') <= remaining(limiter, key, now)
            /\ limiter' = limiter =>
                  remaining(limiter', key, now') >= remaining(limiter, key, now)]_vars

\* a bucket that was emptied by an allow shows a whole token again after a while
C15_Witness ==
    \E key \in DOMAIN limiter.buckets :
        /\ limiter.buckets[key].tokens < Scale
        /\ remaining(limiter, key, now) = limiter.bucket_size

-----------------------------------------------------------------------------
(* Two requests in flight at once, from two clients, with no time passing *)

ConcurrentClients == {<<"A">>, <<"B">>}

\* a good signature over B1, one over B2, a request without key, and a scheme
\* that is no number
ConcurrentHeaders ==
    {Headers(Sig_B1, Key_plain, <<"1">>), Headers(Sig_B2, Key_plain, <<"1">>),
     Headers(Sig_B1, Absent, <<"1">>), Headers(Sig_B1, Key_plain, <<"x">>)}

NoGrants == [k \in {} |-> 0]

\* the allow calls for a key that answered true so far
GrantsOf(key) == IF key \in DOMAIN stats THEN stats[key] ELSE 0

\* ThrottleStage, with the true answers of allow counted per key
ThrottleTallied(r) ==
    /\ ThrottleStage(r)
    /\ LET key == client_ip(req[r].client)
       IN  stats' = IF req'[r].allowed = <<TRUE>>
                    THEN (key :> GrantsOf(key) + 1) @@ stats
                    ELSE stats

InitConcurrent ==
    /\ app = ModuleServer_init(TheModule)
    /\ limiter = IpLimiterMiddleware_init(
                    <<TokenBucketLimiter(CustomBucketSize, DefaultRefillRate)>>)
    /\ shadow = limiter
    /\ now = 0
    /\ req = [r \in AllRequests |-> IdleRequest]
    /\ stats = NoGrants

NextConcurrent ==
    \E r \in AllRequests :
        \/ NewRequest(r, ConcurrentClients, ConcurrentHeaders, Bodies,
                      {route_path("do_the_thing")})
        \/ ThrottleTallied(r)
        \/ SignatureStage(r)
        \/ Dispatch(r)
        \/ Close(r)

SpecConcurrent == InitConcurrent /\ [][NextConcurrent]_vars

\* the next stage of a request that is in the pipeline
Stage(r) == ThrottleTallied(r) \/ SignatureStage(r) \/ Dispatch(r)

\* two requests of one client in flight at once
NextLive ==
    \E r \in AllRequests :
        \/ NewRequest(r, {<<"A">>}, ConcurrentHeaders, Bodies, {route_path("do_the_thing")})
        \/ Stage(r)
        \/ Close(r)

\* the event loop runs the stage a request is ready for, and verify and the
\* handler return
SpecLive ==
    /\ InitConcurrent
    /\ [][NextLive]_vars
    /\ \A r \in AllRequests : WF_vars(Stage(r))

-----------------------------------------------------------------------------
(* C16 *)

\* the requests of a client that are in the pipeline, or answered but not yet
\* closed, and that allow has admitted
AdmittedInFlight(key) ==
    {r \in AllRequests : req[r].pc # "idle" /\ PassedThrottle(req[r])
                            /\ client_ip(req[r].client) = key}

\* C16: however the stages of concurrent requests interleave, with a bucket of
\* n whole tokens and no time passing at most n requests of one client are
\* admitted, in flight and in total, and every admission has been paid with a
\* token of its own: the bucket holds n minus the number of admissions.
C16_NoTokenSpentTwice ==
    \A key \in Identities :
        /\ GrantsOf(key) <= limiter.bucket_size
        /\ Cardinality(AdmittedInFlight(key)) <= limiter.bucket_size
        /\ key \in DOMAIN limiter.buckets =>
              limiter.buckets[key].tokens = Capacity - GrantsOf(key) * Scale

\* two requests of one client are in flight together; the bucket is empty and
\* one of them has been turned away
C16_Witness ==
    \E r, o \in AllRequests :
        /\ r # o
        /\ req[r].client = req[o].client
        /\ req[r].pc = "running" /\ PassedThrottle(req[r])
        /\ req[o].allowed = <<FALSE>>
        /\ GrantsOf(client_ip(req[r].client)) = limiter.bucket_size

-----------------------------------------------------------------------------
(* C18 *)

\* the request was admitted by the throttle and answered with a rejection
RejectedAfterThrottle(q) ==
    /\ IsDone(q)
    /\ PassedThrottle(q)
    /\ q.response[1].status # 200

\* C18: the endpoint registry and the middleware stack never change; the step
\* in which allow admits a request takes one token from the bucket of the
\* request's client and touches no other bucket; no later step of that request
\* (its rejection by the signature stage or by validation, a fault, its end)
\* changes any bucket; and with no time passing no bucket ever gains a token,
\* so the token of a rejected request is not given back.
C18_RejectionKeepsSharedState ==
    [][/\ app' = app
       /\ \A key \in DOMAIN limiter.buckets :
             /\ key \in DOMAIN limiter'.buckets
             /\ limiter'.buckets[key].tokens <= limiter.buckets[key].tokens
       /\ \A r \in AllRequests :
             /\ (PassedThrottle(req[r]) /\ req'[r] # req[r]) => limiter' = limiter
             /\ (req[r].allowed = <<>> /\ req'[r].allowed = <<TRUE>>) =>
                   LET ip == client_ip(req[r].client)
                   IN  /\ limiter'.buckets[ip].tokens = Refilled(ip).tokens - Scale
                       /\ \A key \in Identities \ {ip} :
                             /\ key \in DOMAIN limiter'.buckets <=> key \in DOMAIN limiter.buckets
                             /\ key \in DOMAIN limiter.buckets =>
                                   limiter'.buckets[key] = limiter.buckets[key]]_vars

\* a request of one client has been rejected after the throttle while the other
\* client has a bucket too, and the rejected request's token is still taken
C18_Witness ==
    \E r \in AllRequests :
        /\ RejectedAfterThrottle(req[r])
        /\ req[r].response[1].status = 401
        /\ DOMAIN limiter.buckets = Identities
        /\ limiter.buckets[client_ip(req[r].client)].tokens < Capacity

-----------------------------------------------------------------------------
(* C20 *)

\* how often an event happened for a request
Times(q, e) == Cardinality({i \in DOMAIN q.events : q.events[i] = e})

\* C20: every request that has arrived is answered in the end; it has exactly
\* one response once it is answered and none before; allow, peek_body, verify,
\* routing, validation and the handler run at most once for it; and an
\* answered request is not taken up again: it stays as it is until it is closed.
C20_OneTerminalOutcome ==
    /\ \A r \in AllRequests : (req[r].pc = "running") ~> IsDone(req[r])
    /\ [](\A r \in AllRequests :
            LET q == req[r]
            IN  /\ IsDone(q) => Len(q.response) = 1
                /\ ~IsDone(q) => q.response = <<>>
                /\ \A e \in {"assert", "allow", "remaining", "peek_body", "get_headers",
                             "verify", "route", "validate", "handler"} : Times(q, e) <= 1
                /\ Len(q.allowed) <= 1
                /\ Len(q.verify_calls) <= 1
                /\ Len(q.handler_calls) <= 1
                /\ Len(q.body_reads) <= 1)
    /\ [][\A r \in AllRequests :
            IsDone(req[r]) => (req'[r] = req[r] \/ req'[r] = IdleRequest)]_vars

\* the two requests in flight have both been answered, one by the throttle
\* and one by a handler
C20_Witness ==
    \E r, o \in AllRequests :
        /\ IsDone(req[r]) /\ req[r].allowed = <<FALSE>>
        /\ IsDone(req[o]) /\ req[o].response[1].status = 200
        /\ Times(req[o], "allow") = 1 /\ Times(req[o], "verify") = 1

-----------------------------------------------------------------------------
(* C19 *)

\* the request has no client, or a client whose host is empty
NoOrigin(q) == q.pc # "idle" /\ (q.client = <<>> \/ q.client = <<"">>)

\* C19: a request without client origin that has been taken up is over: the
\* throttle stage failed it on its assertions, the server answered with the
\* fault response, allow and remaining were not called, and neither the
\* signature stage nor routing, validation or a handler ran for it; no step of
\* such a request changes a bucket, and no bucket is ever kept for the empty host.
C19_NoOriginFailsInThrottle ==
    /\ [](\A r \in AllRequests :
            LET q == req[r]
            IN  (NoOrigin(q) /\ (q.events # <<>> \/ q.depth > 1 \/ IsDone(q))) =>
                    /\ IsDone(q)
                    /\ q.depth = 1
                    /\ q.events = <<"assert">>
                    /\ q.response = <<ServerErrorResponse>>
                    /\ q.allowed = <<>>
                    /\ q.verify_calls = <<>>
                    /\ q.handler_calls = <<>>
                    /\ q.body_reads = <<>>)
    /\ []("" \notin DOMAIN limiter.buckets)
    /\ [][\A r \in AllRequests :
            (NoOrigin(req[r]) /\ req'[r] # req[r]) => limiter' = limiter]_vars

\* a request without client and a request with an empty host have been failed
C19_Witness ==
    \E r \in AllRequests :
        /\ IsDone(req[r])
        /\ req[r].client = <<"">>
        /\ req[r].events = <<"assert">>

C19_WitnessNoClient ==
    \E r \in AllRequests :
        /\ IsDone(req[r])
        /\ req[r].client = <<>>
        /\ req[r].events = <<"assert">>

====
